---- MODULE Spec2Model ----
(***************************************************************************)
(* Model of the AI Noter backend (src/index.js): an Express application    *)
(* with a per-address rate limiter in front of three routes,               *)
(*   POST /transcribe  (multer upload -> speech-to-text upstream),         *)
(*   POST /summarize   (JSON text -> chat-completion upstream),            *)
(*   GET  /            (liveness string).                                  *)
(* Requests are handled concurrently on one event loop: every action below *)
(* is one run-to-completion step of that loop (the code between two        *)
(* suspension points), so steps of different requests interleave freely.   *)
(* The source only configures its middleware (express-rate-limit with its   *)
(* in-memory store, multer with disk storage, Express' default error       *)
(* handler); their steps are modelled by what those packages do under that *)
(* configuration.                                                          *)
(* Strings are sequences of characters; a fixed message is a one-element   *)
(* sequence holding the whole message.                                     *)
(***************************************************************************)
EXTENDS Integers, Sequences, FiniteSets, TLC

\* ------------------------------------------------------------------ bounds
MaxLen == 2
MaxHits == 17
MaxTicks == 2

\* ------------------------------------------------------- program constants
max == 15
windowMs == 60000
fileSize == 25 * 1024 * 1024
TextLimit == 20000
allowed == {"audio/m4a", "audio/mp3", "audio/wav"}

\* ------------------------------------------------------------ input sets
Clients == {"a", "b"}
\* two requests can be in flight at a time
Req == {1, 2}
\* the clock advances in steps of half a window
TickMs == windowMs \div 2
Chars == {" ", "a"}

Strings == UNION {[1..n -> Chars] : n \in 0..MaxLen}

\* req.file as multer sees the multipart part: absent, or declared type + size
NoFile == [present |-> FALSE, mimetype |-> "", size |-> 0]
Uploads ==
  {NoFile} \cup
  [present : {TRUE}, mimetype : {"audio/mp3", "text/plain"},
   size : {fileSize, fileSize + 1}]

\* req.body.text: undefined, a string (length = chars), or an array of strings
\* (length = number of elements, chars = length of its `${text}` rendering)
NoText == [type |-> "undefined", length |-> 0, chars |-> 0]
Texts ==
  {NoText} \cup
  [type : {"string"}, length : {0}, chars : {0}] \cup
  [type : {"string"}, length : {1}, chars : {1}] \cup
  [type : {"string"}, length : {TextLimit}, chars : {TextLimit}] \cup
  [type : {"string"}, length : {TextLimit + 1}, chars : {TextLimit + 1}] \cup
  [type : {"array"}, length : {1}, chars : {TextLimit + 1}]

\* result of an upstream call: a throw, or a response whose text/content
\* field is absent or a string
NoResult == [ok |-> FALSE, present |-> FALSE, val |-> <<>>]
Results ==
  {NoResult} \cup
  [ok : {TRUE}, present : {FALSE}, val : {<<>>}] \cup
  [ok : {TRUE}, present : {TRUE}, val : Strings]

\* --------------------------------------------------------------- messages
\* (the texts of the source, written without their accents)
TooManyMsg == <<"Demasiadas peticiones, intenta mas tarde.">>
NoFileMsg == <<"No se envio ningun archivo">>
TranscribeErrMsg == <<"Error al transcribir el audio">>
NoTranscript == <<"Sin texto reconocido">>
NoTextMsg == <<"Falta texto">>
TooLongMsg == <<"Texto demasiado largo">>
SummarizeErrMsg == <<"Error al resumir el texto">>
NoSummary == <<"No se pudo generar el resumen.">>
AliveMsg == <<"Servidor AI Noter activo y seguro.">>
FilterErrMsg == <<"Formato de audio no permitido">>
FileTooLargeMsg == <<"File too large">>

NoResp == [status |-> 0, type |-> "none", key |-> "", val |-> <<>>]
Json(st, k, v) == [status |-> st, type |-> "json", key |-> k, val |-> v]
Plain(st, v) == [status |-> st, type |-> "text", key |-> "", val |-> v]
\* Express' default error handler: status from the error (none here -> 500),
\* an HTML page, not JSON
ErrorPage(v) == [status |-> 500, type |-> "html", key |-> "", val |-> v]

VARIABLES
  now,        \* Date.now() in ms
  hits,       \* rate limiter store: address -> totalHits of its window
  resetTime,  \* rate limiter store: address -> end of its window
  req         \* the requests in flight, one record per slot

vars == <<now, hits, resetTime, req>>

Idle ==
  [pc |-> "idle", client |-> "a", route |-> "health", file |-> NoFile,
   text |-> NoText, tmp |-> "none", unlinks |-> 0, removes |-> 0,
   upstream |-> 0, up |-> NoResult, warned |-> FALSE, handled |-> FALSE,
   resp |-> NoResp]

\* ---------------------------------------------------------- pure helpers
IsSpace(c) == c = " "

RECURSIVE trimStart(_)
trimStart(s) ==
  IF s # <<>> /\ IsSpace(Head(s)) THEN trimStart(Tail(s)) ELSE s

RECURSIVE trimEnd(_)
trimEnd(s) ==
  IF s # <<>> /\ IsSpace(s[Len(s)]) THEN trimEnd(SubSeq(s, 1, Len(s) - 1)) ELSE s

\* variant: only the leading whitespace is dropped
trimLeading(s) == trimStart(s)

trim(s) == trimEnd(trimStart(s))

\* field?.trim() || fallback
TrimOr(u, fallback) ==
  IF u.present /\ trim(u.val) # <<>> THEN trim(u.val) ELSE fallback

\* ---------------------------------------------------------- rate limiter
\* store.increment(key): a window that has run out is restarted, then the
\* request is counted
\* variant: a request arriving while another request of the address is in
\* flight writes back the count it read before that one was counted
totalHitsLostUpdate(c) ==
  IF resetTime[c] <= now THEN 1
  ELSE IF \E r \in Req : req[r].client = c /\ req[r].pc \notin {"idle", "done"}
    THEN hits[c]
  ELSE hits[c] + 1

totalHits(c) == IF resetTime[c] <= now THEN 1 ELSE hits[c] + 1

windowEnd(c) == IF resetTime[c] <= now THEN now + windowMs ELSE resetTime[c]

\* the request is refused when its count exceeds max
\* variant: the comparison is off by one
limitedFromMax(c) == totalHits(c) >= max

limited(c) == totalHits(c) > max

\* ------------------------------------------------------------- handlers
Falsy(t) == t.type = "undefined" \/ (t.type = "string" /\ t.length = 0)

\* variant: the liveness answer is sent as a JSON error object
HealthAsJson(s) ==
  [s EXCEPT !.pc = "done", !.handled = TRUE,
            !.resp = Json(200, "error", AliveMsg)]

\* GET /
Health(s) ==
  [s EXCEPT !.pc = "done", !.handled = TRUE, !.resp = Plain(200, AliveMsg)]

\* POST /summarize up to the await of the upstream call
Summarize(s) ==
  IF Falsy(s.text)
    THEN [s EXCEPT !.pc = "done", !.handled = TRUE,
                   !.resp = Json(400, "error", NoTextMsg)]
  ELSE IF s.text.length > TextLimit
    THEN [s EXCEPT !.pc = "done", !.handled = TRUE,
                   !.resp = Json(400, "error", TooLongMsg)]
  ELSE [s EXCEPT !.pc = "summarizing", !.handled = TRUE, !.upstream = 1]

\* POST /summarize after the await
Summarized(s, u) ==
  IF u.ok
    THEN [s EXCEPT !.pc = "done",
                   !.resp = Json(200, "summary", TrimOr(u, NoSummary))]
    ELSE [s EXCEPT !.pc = "done",
                   !.resp = Json(500, "error", SummarizeErrMsg)]

\* POST /transcribe up to the await of the upstream call
Transcribe(s) ==
  IF ~s.file.present
    THEN [s EXCEPT !.pc = "done", !.handled = TRUE,
                   !.resp = Json(400, "error", NoFileMsg)]
    ELSE [s EXCEPT !.pc = "transcribing", !.handled = TRUE, !.upstream = 1]

\* POST /transcribe after the await: on success fs.unlink is started and the
\* response is sent at once; the catch block sends 500 and starts no unlink
Transcribed(s, u) ==
  IF u.ok
    THEN [s EXCEPT !.pc = "unlinking", !.up = u, !.unlinks = @ + 1,
                   !.resp = Json(200, "text", TrimOr(u, NoTranscript))]
    ELSE [s EXCEPT !.pc = "done", !.up = u,
                   !.resp = Json(500, "error", TranscribeErrMsg)]

\* variant: a failed unlink is reported to the client
UnlinkedEscalates(s, ok) ==
  IF ok THEN [s EXCEPT !.pc = "done", !.tmp = "deleted"]
        ELSE [s EXCEPT !.pc = "done", !.warned = TRUE,
                       !.resp = Json(500, "error", TranscribeErrMsg)]

\* the fs.unlink callback: a failure is only logged
Unlinked(s, ok) ==
  IF ok THEN [s EXCEPT !.pc = "done", !.tmp = "deleted"]
        ELSE [s EXCEPT !.pc = "done", !.warned = TRUE]

\* --------------------------------------------------------------- multer
\* variant: any declared type passes
fileFilterAny(f) == f.mimetype # ""

\* fileFilter runs on the part's headers, before storage is asked to write
fileFilter(f) == f.mimetype \in allowed

\* upload.single("audio") when the part's headers arrive
Multer(s) ==
  IF ~s.file.present THEN Transcribe(s)
  ELSE IF ~fileFilter(s.file)
    THEN [s EXCEPT !.pc = "done", !.resp = ErrorPage(FilterErrMsg)]
  ELSE [s EXCEPT !.pc = "writing", !.tmp = "exists"]

\* limits.fileSize is counted while the part streams into the file
overLimit(f) == f.size > fileSize

\* the stream hit the limit: multer removes what it wrote and fails the
\* request with LIMIT_FILE_SIZE, which no handler of the application catches
MulterAborted(s, removed) ==
  [s EXCEPT !.pc = "done", !.removes = @ + 1,
            !.tmp = IF removed THEN "deleted" ELSE "exists",
            !.resp = ErrorPage(FileTooLargeMsg)]

\* what follows the limiter for an admitted request
Dispatch(s) ==
  CASE s.route = "health" -> Health(s)
    [] s.route = "summarize" -> Summarize(s)
    [] s.route = "transcribe" -> [s EXCEPT !.pc = "multer"]

\* variant: the limiter sends its answer and still calls next()
TooManyThenNext(s) ==
  [Dispatch(s) EXCEPT !.resp = Json(429, "error", TooManyMsg)]

\* the limiter answers by itself (429 + message) and does not call next()
TooMany(s) ==
  [s EXCEPT !.pc = "done", !.resp = Json(429, "error", TooManyMsg)]

\* app.use(limiter) is registered before the body parser and the routes
Limiter(s) == IF limited(s.client) THEN TooMany(s) ELSE Dispatch(s)

\* ---------------------------------------------------------- state machine
Init ==
  /\ now = 0
  /\ hits = [c \in Clients |-> 0]
  /\ resetTime = [c \in Clients |-> 0]
  /\ req = [r \in Req |-> Idle]

Inputs ==
  [route : {"health"}, file : {NoFile}, text : {NoText}] \cup
  [route : {"summarize"}, file : {NoFile}, text : Texts] \cup
  [route : {"transcribe"}, file : Uploads, text : {NoText}]

\* a request arrives and runs through the limiter
Arrive(r, c, in) ==
  /\ req[r].pc = "idle"
  /\ resetTime[c] <= now \/ hits[c] < MaxHits
  /\ hits' = [hits EXCEPT ![c] = totalHits(c)]
  /\ resetTime' = [resetTime EXCEPT ![c] = windowEnd(c)]
  /\ req' = [req EXCEPT ![r] =
       Limiter([Idle EXCEPT !.pc = "limiter", !.client = c, !.route = in.route,
                            !.file = in.file, !.text = in.text])]
  /\ UNCHANGED now

MulterPart(r) ==
  /\ req[r].pc = "multer"
  /\ req' = [req EXCEPT ![r] = Multer(@)]
  /\ UNCHANGED <<now, hits, resetTime>>

MulterLimit(r, removed) ==
  /\ req[r].pc = "writing"
  /\ overLimit(req[r].file)
  /\ req' = [req EXCEPT ![r] = MulterAborted(@, removed)]
  /\ UNCHANGED <<now, hits, resetTime>>

MulterDone(r) ==
  /\ req[r].pc = "writing"
  /\ ~overLimit(req[r].file)
  /\ req' = [req EXCEPT ![r] = Transcribe(@)]
  /\ UNCHANGED <<now, hits, resetTime>>

TranscribeResolve(r, u) ==
  /\ req[r].pc = "transcribing"
  /\ req' = [req EXCEPT ![r] = Transcribed(@, u)]
  /\ UNCHANGED <<now, hits, resetTime>>

UnlinkCallback(r, ok) ==
  /\ req[r].pc = "unlinking"
  /\ req' = [req EXCEPT ![r] = Unlinked(@, ok)]
  /\ UNCHANGED <<now, hits, resetTime>>

SummarizeResolve(r, u) ==
  /\ req[r].pc = "summarizing"
  /\ req' = [req EXCEPT ![r] = Summarized(@, u)]
  /\ UNCHANGED <<now, hits, resetTime>>

\* the connection closes; the slot is free for the next request
Close(r) ==
  /\ req[r].pc = "done"
  /\ req' = [req EXCEPT ![r] = Idle]
  /\ UNCHANGED <<now, hits, resetTime>>

Tick ==
  /\ now + TickMs <= MaxTicks * TickMs
  /\ now' = now + TickMs
  /\ UNCHANGED <<hits, resetTime, req>>

\* every route, the requests of one address
Next ==
  \/ \E r \in Req, in \in Inputs : Arrive(r, "a", in)
  \/ \E r \in Req : MulterPart(r)
  \/ \E r \in Req, removed \in BOOLEAN : MulterLimit(r, removed)
  \/ \E r \in Req : MulterDone(r)
  \/ \E r \in Req, u \in Results : TranscribeResolve(r, u)
  \/ \E r \in Req, ok \in BOOLEAN : UnlinkCallback(r, ok)
  \/ \E r \in Req, u \in Results : SummarizeResolve(r, u)
  \/ \E r \in Req : Close(r)
  \/ Tick

Spec == Init /\ [][Next]_vars

\* the limiter under the requests of two addresses: GET / and POST /summarize
\* requests, the latter staying in flight until the upstream answers
RateInputs ==
  [route : {"health"}, file : {NoFile}, text : {NoText}] \cup
  [route : {"summarize"}, file : {NoFile},
   text : {[type |-> "string", length |-> TextLimit, chars |-> TextLimit]}]

RateResults == {NoResult, [ok |-> TRUE, present |-> TRUE, val |-> <<"a">>]}

NextRate ==
  \/ \E r \in Req, c \in Clients, in \in RateInputs : Arrive(r, c, in)
  \/ \E r \in Req, u \in RateResults : SummarizeResolve(r, u)
  \/ \E r \in Req : Close(r)
  \/ Tick

SpecRate == Init /\ [][NextRate]_vars

\* =================================================================== claims
Arrives(r, c) ==
  req[r].pc = "idle" /\ req'[r].pc # "idle" /\ req'[r].client = c

\* the window of address c is running
InWindow(c) == now < resetTime[c]

InvalidUpload(f) == f.size > fileSize \/ f.mimetype \notin allowed

\* C1: every /transcribe request whose upload was persisted and handed to the
\* upstream sees exactly one fs.unlink of its temporary file, started after
\* the upstream call resolved, whether the call succeeded or threw.
C1_ExactlyOneUnlink ==
  \A r \in Req :
    /\ req[r].unlinks = 1 => req[r].pc \in {"unlinking", "done"}
    /\ (req[r].route = "transcribe" /\ req[r].upstream = 1 /\ req[r].pc = "done")
         => req[r].unlinks = 1

\* C2: every non-success answer is a JSON {error} object, 4xx for a validation
\* failure and 5xx for an upstream failure; a /transcribe request without a
\* file, with a disallowed type or with an oversized file is answered 400.
C2_ErrorsAreJson ==
  \A r \in Req :
    (req[r].pc = "done" /\ req[r].resp.status # 200) =>
      /\ req[r].resp.type = "json" /\ req[r].resp.key = "error"
      /\ req[r].upstream = 1 => req[r].resp.status \in 500..599
      /\ (/\ req[r].route = "transcribe"
          /\ req[r].resp.status # 429
          /\ ~req[r].file.present \/ InvalidUpload(req[r].file))
           => req[r].resp.status = 400

C4_RateWindow ==
  [][\A r \in Req, c \in Clients :
       Arrives(r, c) =>
         /\ (InWindow(c) /\ hits[c] < max)
              => /\ req'[r].resp.status # 429
                 /\ hits'[c] = hits[c] + 1 /\ resetTime'[c] = resetTime[c]
         /\ (InWindow(c) /\ hits[c] >= max)
              => /\ req'[r].resp = Json(429, "error", TooManyMsg)
                 /\ hits'[c] = hits[c] + 1 /\ resetTime'[c] = resetTime[c]
         /\ ~InWindow(c)
              => /\ req'[r].resp.status # 429
                 /\ hits'[c] = 1 /\ resetTime'[c] = now + windowMs]_vars

C4_Witness ==
  \E r \in Req :
    /\ req[r].resp = Json(429, "error", TooManyMsg)
    /\ hits[req[r].client] = max + 1
    /\ \E c \in Clients : c # req[r].client /\ hits[c] = 1 /\ resetTime[c] > now

\* C5: a /summarize request without text or with more than 20,000 characters
\* of text is answered 400 with a JSON {error} object and never reaches the
\* upstream; the upstream is called only with text of 1..20,000 characters.
C5_SummarizeValidation ==
  \A r \in Req :
    (req[r].route = "summarize" /\ req[r].resp.status # 429) =>
      /\ (req[r].text.type = "undefined" \/ req[r].text.chars = 0
            \/ req[r].text.chars > TextLimit)
           => /\ req[r].upstream = 0
              /\ req[r].pc = "done" => req[r].resp.status = 400
              /\ req[r].pc = "done" => req[r].resp.type = "json"
              /\ req[r].pc = "done" => req[r].resp.key = "error"
      /\ req[r].upstream = 1
           => /\ req[r].text.type # "undefined"
              /\ req[r].text.chars \in 1..TextLimit

\* C6 (as stated): GET / is answered 200 with the liveness string whatever
\* the state of the address's rate-limit counter.
C6_HealthAlways200 ==
  \A r \in Req :
    (req[r].route = "health" /\ req[r].pc = "done")
      => req[r].resp = Plain(200, AliveMsg)

\* C6 (amended): GET / is answered 200 with the liveness string whenever the
\* rate limiter admits the request; the 16th and later request of an address
\* within its window is answered 429 with the rate-limit message instead.
C6_HealthUnlessLimited ==
  [][\A r \in Req, c \in Clients :
       (Arrives(r, c) /\ req'[r].route = "health") =>
         /\ req'[r].pc = "done"
         /\ req'[r].resp =
              IF InWindow(c) /\ hits[c] >= max
                THEN Json(429, "error", TooManyMsg)
                ELSE Plain(200, AliveMsg)]_vars

C6_Witness ==
  \E r1, r2 \in Req :
    /\ req[r1].route = "health" /\ req[r1].resp.status = 200
    /\ req[r2].route = "health" /\ req[r2].resp.status = 429

\* the text of a string between its first and its last non-whitespace
\* character; the fallback when there is none or the field is absent
Inner(u) ==
  LET ink == {i \in 1..Len(u.val) : u.val[i] # " "}
      first == CHOOSE i \in ink : \A j \in ink : i <= j
      last == CHOOSE i \in ink : \A j \in ink : j <= i
  IN IF u.present /\ ink # {} THEN SubSeq(u.val, first, last) ELSE NoTranscript

\* C7: when the transcription upstream succeeds the answer is 200 {text: T},
\* T being the upstream text without its surrounding whitespace, or the
\* fallback string when the field is absent or blank; never a 500.
C7_TranscriptTrimmed ==
  \A r \in Req :
    (req[r].route = "transcribe" /\ req[r].up.ok)
      => /\ req[r].pc \in {"unlinking", "done"}
         /\ req[r].resp = Json(200, "text", Inner(req[r].up))

C7_Witness ==
  \E r1, r2 \in Req :
    /\ req[r1].up.ok /\ req[r1].up.present
    /\ Len(req[r1].up.val) > Len(req[r1].resp.val)
    /\ req[r1].resp.val # <<>> /\ req[r1].resp.val # NoTranscript
    /\ req[r2].up.ok /\ req[r2].resp.val = NoTranscript

\* C8: a failed unlink never changes the answer of /transcribe: two requests
\* with the same upstream result have the same answer whether their unlink
\* succeeded or failed, a failure is only logged, and the answer is already
\* sent while the unlink is pending.
C8_UnlinkFailureSilent ==
  /\ \A r \in Req :
       /\ req[r].pc = "unlinking" => req[r].resp.status = 200
       /\ req[r].warned => req[r].resp.status = 200 /\ req[r].pc = "done"
       /\ (req[r].unlinks = 1 /\ req[r].pc = "done" /\ req[r].tmp = "exists")
            => req[r].warned
  /\ \A r1, r2 \in Req :
       (/\ req[r1].unlinks = 1 /\ req[r2].unlinks = 1
        /\ req[r1].up = req[r2].up)
         => req[r1].resp = req[r2].resp

C8_Witness ==
  \E r1, r2 \in Req :
    /\ req[r1].pc = "done" /\ req[r1].warned /\ req[r1].tmp = "exists"
    /\ req[r2].pc = "done" /\ req[r2].unlinks = 1 /\ req[r2].tmp = "deleted"
    /\ req[r1].up = req[r2].up

\* C9: requests of one address that overlap in flight are each counted
\* exactly once: only an arriving request changes the address's counter, it
\* raises it by exactly one within a running window, and a request is
\* admitted only as one of the first 15 of its window.
C9_CountedOnce ==
  [][\A c \in Clients :
       LET arriving == {r \in Req : Arrives(r, c)} IN
       /\ arriving = {} => hits'[c] = hits[c] /\ resetTime'[c] = resetTime[c]
       /\ Cardinality(arriving) <= 1
       /\ (arriving # {} /\ InWindow(c)) => hits'[c] = hits[c] + 1
       /\ \A r \in arriving :
            req'[r].resp.status # 429 => hits'[c] <= max]_vars

C9_Witness ==
  \E r1, r2 \in Req :
    /\ r1 # r2 /\ req[r1].client = req[r2].client
    /\ req[r1].pc = "summarizing"
    /\ req[r2].resp.status = 429
    /\ hits[req[r1].client] = max + 1

\* C10: a request refused by the rate limiter runs no handler logic: nothing
\* of its upload is written, its body is not validated, and no upstream is
\* called; it is answered 429 and that is all.
C10_LimitedShortCircuits ==
  \A r \in Req :
    req[r].resp.status = 429
      => /\ req[r].pc = "done"
         /\ req[r].tmp = "none" /\ ~req[r].handled /\ req[r].upstream = 0
         /\ req[r].unlinks = 0 /\ req[r].removes = 0 /\ ~req[r].warned

C10_Witness ==
  \E r1, r2 \in Req :
    /\ req[r1].resp.status = 429 /\ req[r1].route = "transcribe"
    /\ req[r1].file.present
    /\ req[r2].resp.status = 429 /\ req[r2].route = "summarize"

====
